---- MODULE Spec2Model ----
(***************************************************************************)
(* A model of three parts of the AzureRM provider:                         *)
(*   - the LogzSubAccountTagRule resource ID codec (format / parse),       *)
(*   - the paginated list client of the configurations SDK                 *)
(*     (ListByServer, ListByServerComplete[MatchingPredicate]) and the     *)
(*     List call of the objectreplicationpolicies SDK,                     *)
(*   - the CRUD handlers of the Spring Cloud Redis association resource    *)
(*     and of the Stream Analytics OutputTableResource.                    *)
(* Each part has a specification of its own (SpecId, SpecList and, with    *)
(* fairness, SpecListLive, SpecCrud, SpecCrudTwo for two resource          *)
(* instances side by side, SpecSsl for the ssl_enabled attribute); the     *)
(* variables of the other parts keep their initial values there.           *)
(***************************************************************************)
EXTENDS Integers, Sequences, FiniteSets, TLC

VARIABLES
  \* ---- resource ID codec ----
  idc,        \* the component tuple handed to NewLogzSubAccountTagRuleID
  idStr,      \* the identifier string under test (a sequence of characters)
  idHow,      \* how idStr was obtained: "none", "valid", "upper", "prefix", "drop", "droppair", "blank"
  idCut,      \* the prefix length / component index used to derive idStr (0: none)
  idRes,      \* what LogzSubAccountTagRuleID returned for idStr
  idPc,       \* "off", "new", "formatted", "mangled", "parsed"
  \* ---- paginated list client ----
  server,     \* the pages the service holds: page 1 answers the initial request
  predicate,  \* the ServerConfigurationPredicate handed to the drain
  lpc,        \* "off", "start", "paging", "done", "failed", "listed", "ended"
  page,       \* the ListByServerResponse the drain holds
  items,      \* the drain's local accumulator
  completeItems, \* what the same responses accumulate under ListByServerComplete
  out,        \* what the drain returned: (ListByServerCompleteResult, error)
  trail,      \* the pages loaded so far, in order
  sends,      \* the number of Client.Send calls made
  linkQuery,  \* the api-version parameter in the query of the service's nextLinks (Nil: none)
  lastCall,   \* the last call to the client: its stages, its request, its response and its results
  more,       \* what LoadMore returned when called on the last page of a finished drain
  \* ---- resource CRUD handlers (one entry per resource instance) ----
  insts,      \* the resource instances the orchestrator manages in this run
  kind,       \* "redis" (Spring Cloud Redis association) or "table" (OutputTableResource)
  remote,     \* the remote object: "NotExists", "Creating", "Exists", "Updating", "Deleting"
  tracked,    \* d.Id(): "" or the formatted ID
  isNew,      \* d.IsNewResource()
  hop,        \* the operation the orchestrator invoked: "none", "create", "update", "read", "delete"
  hpc,        \* where the handler is: "idle", "start", "call", "wait", "read", "done"
  probe,      \* what the existence probe of Create saw: "none", "found", "notfound", "error"
  got,        \* what the Get of Read saw: "none", "found", "notfound", "error"
  calls,      \* the API calls the invocation has issued, in order
  answers,    \* how each of these calls ended, in the same order
  clean,      \* no invocation on the instance failed and no other actor touched its object
  attrs,      \* where the attributes in d come from: "none", "config" (the plan) or "remote" (set by Read)
  hres,       \* what the handler returned: "none", "ok" or the error
  \* ---- the ssl_enabled attribute of the Redis association ----
  sslConfig,  \* ssl_enabled in the configuration: what d.Get("ssl_enabled") gives Create
  sslParam,   \* what the service's Get returns for Properties and BindingParameters["useSsl"]
  sslEnabled, \* ssl_enabled in d
  sslPc       \* "off", "new", "created", "read", "stale", "refreshed", "panicked"

idVars == <<idc, idStr, idHow, idCut, idRes, idPc>>

listVars == <<server, predicate, lpc, page, items, completeItems, out, trail, sends, linkQuery, lastCall, more>>

crudVars == <<insts, kind, remote, tracked, isNew, hop, hpc, probe, got, calls, answers, clean, attrs, hres>>

sslVars == <<sslConfig, sslParam, sslEnabled, sslPc>>

vars == <<idc, idStr, idHow, idCut, idRes, idPc,
          server, predicate, lpc, page, items, completeItems, out, trail, sends,
          linkQuery, lastCall, more,
          insts, kind, remote, tracked, isNew, hop, hpc, probe, got, calls, answers, clean, attrs, hres,
          sslConfig, sslParam, sslEnabled, sslPc>>

Nil == "nil"

(***************************************************************************)
(* Strings are sequences of one-character strings.                         *)
(***************************************************************************)
Slash == "/"

Lower == <<"a","b","c","d","e","f","g","h","i","j","k","l","m",
           "n","o","p","q","r","s","t","u","v","w","x","y","z">>

Upper == <<"A","B","C","D","E","F","G","H","I","J","K","L","M",
           "N","O","P","Q","R","S","T","U","V","W","X","Y","Z">>

\* strings.ToUpper on one character
ToUpperChar(c) ==
  IF \E i \in DOMAIN Lower : Lower[i] = c
  THEN Upper[CHOOSE i \in DOMAIN Lower : Lower[i] = c]
  ELSE c

\* strings.ToUpper
ToUpper(s) == [i \in DOMAIN s |-> ToUpperChar(s[i])]

\* the literal segments of the identifier
LitSubscriptions  == <<"s","u","b","s","c","r","i","p","t","i","o","n","s">>
LitResourceGroups == <<"r","e","s","o","u","r","c","e","G","r","o","u","p","s">>
LitProviders      == <<"p","r","o","v","i","d","e","r","s">>
LitMicrosoftLogz  == <<"M","i","c","r","o","s","o","f","t",".","L","o","g","z">>
LitMonitors       == <<"m","o","n","i","t","o","r","s">>
LitAccounts       == <<"a","c","c","o","u","n","t","s">>
LitTagRules       == <<"t","a","g","R","u","l","e","s">>

\* strings.Split(s, "/"): the components between the slashes, empty ones kept
SlashPositions(s) == {i \in DOMAIN s : s[i] = Slash}

\* the position of the k-th slash; 0 before the first, Len(s) + 1 after the last
NthSlash(s, k) ==
  IF k = 0 THEN 0
  ELSE IF k > Cardinality(SlashPositions(s)) THEN Len(s) + 1
  ELSE CHOOSE i \in SlashPositions(s) :
         Cardinality({j \in SlashPositions(s) : j <= i}) = k

Split(s) ==
  [k \in 1..(Cardinality(SlashPositions(s)) + 1) |->
     SubSeq(s, NthSlash(s, k - 1) + 1, NthSlash(s, k) - 1)]

\* strings.Join(comps, "/")
RECURSIVE Join(_)
Join(comps) ==
  IF comps = <<>> THEN <<>>
  ELSE IF Len(comps) = 1 THEN comps[1]
  ELSE comps[1] \o <<Slash>> \o Join(Tail(comps))

(***************************************************************************)
(* The LogzSubAccountTagRuleId codec.                                      *)
(***************************************************************************)
\* the component values considered (non-empty, free of "/")
IdValues == { <<"r","g","1">>, <<"1","2">>, <<"m","o","n","i","t","o","r","s">> }

NewLogzSubAccountTagRuleID(subscriptionId, resourceGroup, monitorName, accountName, tagRuleName) ==
  [SubscriptionId |-> subscriptionId, ResourceGroup |-> resourceGroup,
   MonitorName |-> monitorName, AccountName |-> accountName,
   TagRuleName |-> tagRuleName]

\* the identifier of TestLogzSubAccountTagRuleIDFormatter
ExampleId ==
  NewLogzSubAccountTagRuleID(
    << "1","2","3","4","5","6","7","8","-","1","2","3","4","-","9","8",
       "7","6","-","4","5","6","3","-","1","2","3","4","5","6","7","8",
       "9","0","1","2" >>,
    << "r","e","s","o","u","r","c","e","G","r","o","u","p","1" >>,
    << "m","o","n","i","t","o","r","1" >>,
    << "s","u","b","A","c","c","o","u","n","t","1" >>,
    << "r","u","l","e","S","e","t","1" >>)

\* the string TestLogzSubAccountTagRuleIDFormatter expects for ExampleId
ExampleIdString ==
  << "/","s","u","b","s","c","r","i","p","t","i","o","n","s","/","1",
     "2","3","4","5","6","7","8","-","1","2","3","4","-","9","8","7",
     "6","-","4","5","6","3","-","1","2","3","4","5","6","7","8","9",
     "0","1","2","/","r","e","s","o","u","r","c","e","G","r","o","u",
     "p","s","/","r","e","s","o","u","r","c","e","G","r","o","u","p",
     "1","/","p","r","o","v","i","d","e","r","s","/","M","i","c","r",
     "o","s","o","f","t",".","L","o","g","z","/","m","o","n","i","t",
     "o","r","s","/","m","o","n","i","t","o","r","1","/","a","c","c",
     "o","u","n","t","s","/","s","u","b","A","c","c","o","u","n","t",
     "1","/","t","a","g","R","u","l","e","s","/","r","u","l","e","S",
     "e","t","1" >>

IdTuples ==
  { NewLogzSubAccountTagRuleID(s, g, m, a, t) :
      s \in IdValues, g \in IdValues, m \in IdValues, a \in IdValues, t \in IdValues }
  \cup {ExampleId}

\* variant of ID(): the resource group segment written "resourcegroups"
IDLowerCasedKeys(id) ==
  <<Slash>> \o LitSubscriptions \o <<Slash>> \o id.SubscriptionId
  \o <<Slash>> \o [i \in DOMAIN LitResourceGroups |->
                     IF LitResourceGroups[i] = "G" THEN "g" ELSE LitResourceGroups[i]]
  \o <<Slash>> \o id.ResourceGroup
  \o <<Slash>> \o LitProviders \o <<Slash>> \o LitMicrosoftLogz
  \o <<Slash>> \o LitMonitors \o <<Slash>> \o id.MonitorName
  \o <<Slash>> \o LitAccounts \o <<Slash>> \o id.AccountName
  \o <<Slash>> \o LitTagRules \o <<Slash>> \o id.TagRuleName

\* LogzSubAccountTagRuleId.ID(): the format string with the five values put in
ID(id) ==
  <<Slash>> \o LitSubscriptions \o <<Slash>> \o id.SubscriptionId
  \o <<Slash>> \o LitResourceGroups \o <<Slash>> \o id.ResourceGroup
  \o <<Slash>> \o LitProviders \o <<Slash>> \o LitMicrosoftLogz
  \o <<Slash>> \o LitMonitors \o <<Slash>> \o id.MonitorName
  \o <<Slash>> \o LitAccounts \o <<Slash>> \o id.AccountName
  \o <<Slash>> \o LitTagRules \o <<Slash>> \o id.TagRuleName

\* the literal expected at each position of the split identifier; <<>> at a
\* position marks a value (position 1 is the empty text before the leading "/")
IdLayout ==
  << <<>>, LitSubscriptions, <<>>, LitResourceGroups, <<>>,
     LitProviders, LitMicrosoftLogz, LitMonitors, <<>>,
     LitAccounts, <<>>, LitTagRules, <<>> >>

IdValuePositions == {3, 5, 9, 11, 13}

\* variant of SegmentMatches: the comparison ignores case
SegmentMatchesFold(actual, literal) == ToUpper(actual) = ToUpper(literal)

\* a literal segment is matched exactly (case-sensitive)
SegmentMatches(actual, literal) == actual = literal

\* variant of ValuePresent: an empty value is accepted
ValuePresentAlways(v) == TRUE

\* the value following a segment must be there
ValuePresent(v) == v # <<>>

\* variant of IdFromComponents: monitor and account exchanged
IdFromComponentsSwapped(c) ==
  NewLogzSubAccountTagRuleID(c[3], c[5], c[11], c[9], c[13])

\* the parsed components, taken from their positions
IdFromComponents(c) ==
  NewLogzSubAccountTagRuleID(c[3], c[5], c[9], c[11], c[13])

\* LogzSubAccountTagRuleID(input): (id, error); no id is returned with an error
LogzSubAccountTagRuleID(input) ==
  LET c == Split(input)
      wellFormed ==
        /\ Len(c) = Len(IdLayout)
        /\ c[1] = <<>>
        /\ \A i \in 2..Len(IdLayout) :
             IF i \in IdValuePositions
             THEN ValuePresent(c[i])
             ELSE SegmentMatches(c[i], IdLayout[i])
  IN IF wellFormed
     THEN [ok |-> TRUE,  id |-> IdFromComponents(c)]
     ELSE [ok |-> FALSE, id |-> Nil]

NoResult == [ok |-> FALSE, id |-> "notparsed"]

\* ---- the codec's tests as a state machine ----
IdInit ==
  /\ idc \in IdTuples
  /\ idStr = <<>>
  /\ idHow = "none"
  /\ idCut = 0
  /\ idRes = NoResult
  /\ idPc = "new"

\* the codec at rest, while another part runs
IdIdle ==
  /\ idc = ExampleId
  /\ idStr = <<>>
  /\ idHow = "none"
  /\ idCut = 0
  /\ idRes = NoResult
  /\ idPc = "off"

\* TestLogzSubAccountTagRuleIDFormatter: format the tuple
IdFormat ==
  /\ idPc = "new"
  /\ idStr' = ID(idc)
  /\ idHow' = "valid"
  /\ idPc' = "formatted"
  /\ UNCHANGED <<idc, idCut, idRes>>
  /\ UNCHANGED listVars
  /\ UNCHANGED crudVars
  /\ UNCHANGED sslVars

\* the upper-cased test input
IdUpperCase ==
  /\ idPc = "formatted"
  /\ idStr' = ToUpper(idStr)
  /\ idHow' = "upper"
  /\ idPc' = "mangled"
  /\ UNCHANGED <<idc, idCut, idRes>>
  /\ UNCHANGED listVars
  /\ UNCHANGED crudVars
  /\ UNCHANGED sslVars

\* a proper prefix of the valid identifier (the "missing ..." test inputs)
IdPrefix ==
  /\ idPc = "formatted"
  /\ \E n \in 0..(Len(idStr) - 1) :
       /\ idStr' = SubSeq(idStr, 1, n)
       /\ idCut' = n
  /\ idHow' = "prefix"
  /\ idPc' = "mangled"
  /\ UNCHANGED <<idc, idRes>>
  /\ UNCHANGED listVars
  /\ UNCHANGED crudVars
  /\ UNCHANGED sslVars

RemoveAt(s, k, n) == SubSeq(s, 1, k - 1) \o SubSeq(s, k + n, Len(s))

\* an identifier lacking one component (a literal segment or a value)
IdDrop ==
  /\ idPc = "formatted"
  /\ \E k \in 2..Len(IdLayout) :
       /\ idStr' = Join(RemoveAt(Split(idStr), k, 1))
       /\ idCut' = k
  /\ idHow' = "drop"
  /\ idPc' = "mangled"
  /\ UNCHANGED <<idc, idRes>>
  /\ UNCHANGED listVars
  /\ UNCHANGED crudVars
  /\ UNCHANGED sslVars

\* an identifier lacking a segment together with its value
IdDropPair ==
  /\ idPc = "formatted"
  /\ \E k \in (IdValuePositions \cup {7}) :
       /\ idStr' = Join(RemoveAt(Split(idStr), k - 1, 2))
       /\ idCut' = k
  /\ idHow' = "droppair"
  /\ idPc' = "mangled"
  /\ UNCHANGED <<idc, idRes>>
  /\ UNCHANGED listVars
  /\ UNCHANGED crudVars
  /\ UNCHANGED sslVars

\* an identifier whose value after a segment is empty
IdBlank ==
  /\ idPc = "formatted"
  /\ \E k \in IdValuePositions :
       /\ idStr' = Join([Split(idStr) EXCEPT ![k] = <<>>])
       /\ idCut' = k
  /\ idHow' = "blank"
  /\ idPc' = "mangled"
  /\ UNCHANGED <<idc, idRes>>
  /\ UNCHANGED listVars
  /\ UNCHANGED crudVars
  /\ UNCHANGED sslVars

\* TestLogzSubAccountTagRuleID: parse the input
IdParse ==
  /\ idPc \in {"formatted", "mangled"}
  /\ idRes' = LogzSubAccountTagRuleID(idStr)
  /\ idPc' = "parsed"
  /\ UNCHANGED <<idc, idStr, idHow, idCut>>
  /\ UNCHANGED listVars
  /\ UNCHANGED crudVars
  /\ UNCHANGED sslVars

IdNext ==
  \/ IdFormat
  \/ IdUpperCase
  \/ IdPrefix
  \/ IdDrop
  \/ IdDropPair
  \/ IdBlank
  \/ IdParse


(***************************************************************************)
(* The paginated list client (package configurations).                     *)
(***************************************************************************)
MaxPages == 2

\* the drain of a chain that never ends is followed for this many requests
MaxRequests == MaxPages + 1

\* the JSON "nextLink" field: not in the body, null, or a string
Absent == [json |-> "absent"]
Null == [json |-> "null"]
Link(t) == [json |-> "string", to |-> t]

\* a Go pointer: nil, or a pointer to a value
NilPtr == <<>>
Ptr(x) == <<x>>
Deref(p) == p[1]

\* a Go error: nil, or a message with the context and operation it was wrapped with
NoErr == [context |-> "", op |-> "", message |-> ""]

\* the "value" arrays a page may carry (items are reduced to their names)
PageValues == { <<>>, <<"a">>, <<"b", "a">> }

ItemNames == {"a", "b"}

\* the JSON body of a page: { "value": [...], "nextLink": string|null };
\* a nextLink is the number of the page it leads to
WirePages(n) == [value : PageValues, nextLink : {Absent, Null} \cup {Link(t) : t \in 1..n}]

Servers == UNION { [1..n -> WirePages(n)] : n \in 1..MaxPages }

\* what can go wrong with one request
Faults == {"none", "prepare", "send", "status", "json"}

\* ServerConfigurationPredicate, reduced to its Name field (Nil: not set)
Predicates == [Name : {Nil} \cup ItemNames]

\* ServerConfigurationPredicate{}: the predicate of ListByServerComplete
CompletePredicate == [Name |-> Nil]

\* ServerConfigurationPredicate.Matches
Matches(p, v) == p.Name = Nil \/ p.Name = v

\* the zero ListByServerResponse
NoHttpResponse == [status |-> 0, body |-> [value |-> <<>>, nextLink |-> Absent], malformed |-> FALSE, closed |-> FALSE]

ZeroResponse == [HttpResponse |-> NoHttpResponse, Model |-> NilPtr, nextLink |-> NilPtr, nextPageFunc |-> FALSE]

\* variant of HasMore: a page without items ends the listing
HasMoreUnlessEmpty(r) == r.nextLink # NilPtr /\ r.Model # NilPtr /\ Deref(r.Model) # <<>>

\* ListByServerResponse.HasMore
HasMore(r) == r.nextLink # NilPtr

\* the HTTP response to a request for page t under a fault
HttpResponseFor(t, fault) ==
  CASE fault = "status" -> [status |-> 500, body |-> server[t], malformed |-> FALSE, closed |-> FALSE]
    [] fault = "json"   -> [status |-> 200, body |-> server[t], malformed |-> TRUE, closed |-> FALSE]
    [] OTHER            -> [status |-> 200, body |-> server[t], malformed |-> FALSE, closed |-> FALSE]

\* json.Unmarshal of the nextLink field into *string
DecodeNextLink(w) == IF w.json = "string" THEN Ptr(w.to) ELSE NilPtr

\* variant of responderForListByServer: the body is closed on success only
responderClosingOnSuccess(resp) ==
  LET statusOk == resp.status = 200
      respObj == IF statusOk
                 THEN [Values |-> resp.body.value, NextLink |-> DecodeNextLink(resp.body.nextLink)]
                 ELSE [Values |-> <<>>, NextLink |-> NilPtr]
      err == IF ~statusOk THEN [NoErr EXCEPT !.message = "unexpected status"]
             ELSE IF resp.malformed THEN [NoErr EXCEPT !.message = "unmarshalling"]
             ELSE NoErr
  IN [result |-> [HttpResponse |-> [resp EXCEPT !.closed = (err = NoErr)],
                  Model |-> Ptr(respObj.Values),
                  nextLink |-> respObj.NextLink,
                  nextPageFunc |-> respObj.NextLink # NilPtr],
      err |-> err]

\* responderForListByServer: (result, err). The status is checked first, the
\* body is unmarshalled only when the status was 200, and the body is closed.
\* A malformed body is reported after what could be decoded was stored.
responderForListByServer(resp) ==
  LET statusOk == resp.status = 200
      respObj == IF statusOk
                 THEN [Values |-> resp.body.value, NextLink |-> DecodeNextLink(resp.body.nextLink)]
                 ELSE [Values |-> <<>>, NextLink |-> NilPtr]
      err == IF ~statusOk THEN [NoErr EXCEPT !.message = "unexpected status"]
             ELSE IF resp.malformed THEN [NoErr EXCEPT !.message = "unmarshalling"]
             ELSE NoErr
  IN [result |-> [HttpResponse |-> [resp EXCEPT !.closed = TRUE],
                  Model |-> Ptr(respObj.Values),
                  nextLink |-> respObj.NextLink,
                  nextPageFunc |-> respObj.NextLink # NilPtr],
      err |-> err]

\* autorest.NewErrorWithError(err, "configurations.ConfigurationsClient", "ListByServer", ...)
NewErrorWithError(message) ==
  [context |-> "", op |-> "configurations.ConfigurationsClient#ListByServer", message |-> message]

\* the API version constant of the configurations client
defaultApiVersion == "defaultApiVersion"

\* an API version other than the client's
OtherApiVersion == "otherApiVersion"

\* the api-version parameter a nextLink of the service may carry
LinkQueries == {defaultApiVersion, OtherApiVersion, Nil}

\* no request was built
NoRequest == [method |-> "", target |-> 0, apiVersion |-> Nil]

\* variant of preparerForListByServer: the api-version parameter is left out
preparerWithoutApiVersion(t) == [method |-> "GET", target |-> t, apiVersion |-> Nil]

\* preparerForListByServer: GET {id}/configurations?api-version=defaultApiVersion;
\* t is the page this request is answered with
preparerForListByServer(t) ==
  [method |-> "GET", target |-> t, apiVersion |-> defaultApiVersion]

\* preparerForListByServerWithNextLink: GET on the path of the nextLink with
\* the query parameters of the nextLink and no others
preparerForListByServerWithNextLink(nextLink) ==
  [method |-> "GET", target |-> nextLink, apiVersion |-> linkQuery]

\* variant of SendAndRespond: the request is sent although preparing it failed
SendAndRespondRegardless(req, fault) ==
  LET r == responderForListByServer(HttpResponseFor(req.target, IF fault \in {"prepare", "send"} THEN "none" ELSE fault))
  IN IF fault = "prepare"
     THEN [resp |-> ZeroResponse, err |-> NewErrorWithError("Failure preparing request"),
           sent |-> 1, stages |-> <<"prepare", "send">>, req |-> req]
     ELSE IF r.err # NoErr
          THEN [resp |-> r.result, err |-> NewErrorWithError("Failure responding to request"),
                sent |-> 1, stages |-> <<"prepare", "send", "respond">>, req |-> req]
          ELSE [resp |-> r.result, err |-> NoErr,
                sent |-> 1, stages |-> <<"prepare", "send", "respond">>, req |-> req]

\* the body of ListByServer and of the nextPageFunc closure after the choice
\* of the preparer: prepare, send, respond, each stage run only when the one
\* before it returned no error. (resp, err, sent, stages, req)
SendAndRespond(req, fault) ==
  IF fault = "prepare"
  THEN [resp |-> ZeroResponse, err |-> NewErrorWithError("Failure preparing request"),
        sent |-> 0, stages |-> <<"prepare">>, req |-> NoRequest]
  ELSE IF fault = "send"
  THEN [resp |-> ZeroResponse, err |-> NewErrorWithError("Failure sending request"),
        sent |-> 1, stages |-> <<"prepare", "send">>, req |-> req]
  ELSE LET r == responderForListByServer(HttpResponseFor(req.target, fault))
       IN IF r.err # NoErr
          THEN [resp |-> r.result, err |-> NewErrorWithError("Failure responding to request"),
                sent |-> 1, stages |-> <<"prepare", "send", "respond">>, req |-> req]
          ELSE [resp |-> r.result, err |-> NoErr,
                sent |-> 1, stages |-> <<"prepare", "send", "respond">>, req |-> req]

\* ListByServer: the request for the first page (t = 1)
ListByServer(t, fault) == SendAndRespond(preparerForListByServer(t), fault)

\* the nextPageFunc closure of a page whose nextLink leads to page t
nextPageFunc(t, fault) == SendAndRespond(preparerForListByServerWithNextLink(t), fault)

\* the zero ListResponse of the objectreplicationpolicies client
ZeroListResponse == [HttpResponse |-> NoHttpResponse, Model |-> NilPtr]

\* preparerForList: GET {id}/objectReplicationPolicies?api-version=defaultApiVersion
\* (defaultApiVersion here is the constant of the objectreplicationpolicies package)
preparerForList == [method |-> "GET", target |-> 1, apiVersion |-> defaultApiVersion]

\* responderForList: (result, err), the same responder chain as above
responderForList(resp) ==
  LET statusOk == resp.status = 200
      err == IF ~statusOk THEN [NoErr EXCEPT !.message = "unexpected status"]
             ELSE IF resp.malformed THEN [NoErr EXCEPT !.message = "unmarshalling"]
             ELSE NoErr
  IN [result |-> [HttpResponse |-> [resp EXCEPT !.closed = TRUE],
                  Model |-> IF statusOk THEN Ptr(resp.body.value) ELSE NilPtr],
      err |-> err]

\* autorest.NewErrorWithError(err, "objectreplicationpolicies.ObjectReplicationPoliciesClient", "List", ...)
NewListError(message) ==
  [context |-> "", op |-> "objectreplicationpolicies.ObjectReplicationPoliciesClient#List", message |-> message]

\* ObjectReplicationPoliciesClient.List: prepare, send, respond.
\* (resp, err, sent, stages, req)
List(fault) ==
  IF fault = "prepare"
  THEN [resp |-> ZeroListResponse, err |-> NewListError("Failure preparing request"),
        sent |-> 0, stages |-> <<"prepare">>, req |-> NoRequest]
  ELSE IF fault = "send"
  THEN [resp |-> ZeroListResponse, err |-> NewListError("Failure sending request"),
        sent |-> 1, stages |-> <<"prepare", "send">>, req |-> preparerForList]
  ELSE LET r == responderForList(HttpResponseFor(preparerForList.target, fault))
       IN IF r.err # NoErr
          THEN [resp |-> r.result, err |-> NewListError("Failure responding to request"),
                sent |-> 1, stages |-> <<"prepare", "send", "respond">>, req |-> preparerForList]
          ELSE [resp |-> r.result, err |-> NoErr,
                sent |-> 1, stages |-> <<"prepare", "send", "respond">>, req |-> preparerForList]

\* variant of LoadMore: the follow-up request is the initial request again
LoadMoreFromStart(r, fault) ==
  IF ~HasMore(r)
  THEN [resp |-> ZeroResponse, err |-> [NoErr EXCEPT !.message = "no more pages returned"],
        sent |-> 0, stages |-> <<>>, req |-> NoRequest]
  ELSE nextPageFunc(1, fault)

\* variant of LoadMore: a nextLink that leads to a page loaded before ends
\* the listing with an error
LoadMoreDetectingCycle(r, fault) ==
  IF ~HasMore(r) \/ (\E i \in DOMAIN trail : trail[i] = Deref(r.nextLink))
  THEN [resp |-> ZeroResponse, err |-> [NoErr EXCEPT !.message = "no more pages returned"],
        sent |-> 0, stages |-> <<>>, req |-> NoRequest]
  ELSE nextPageFunc(Deref(r.nextLink), fault)

\* variant of LoadMore: on a page without a nextLink it returns no error
LoadMoreSilentAtEnd(r, fault) ==
  IF ~HasMore(r)
  THEN [resp |-> ZeroResponse, err |-> NoErr, sent |-> 0, stages |-> <<>>, req |-> NoRequest]
  ELSE nextPageFunc(Deref(r.nextLink), fault)

\* ListByServerResponse.LoadMore
LoadMore(r, fault) ==
  IF ~HasMore(r)
  THEN [resp |-> ZeroResponse, err |-> [NoErr EXCEPT !.message = "no more pages returned"],
        sent |-> 0, stages |-> <<>>, req |-> NoRequest]
  ELSE nextPageFunc(Deref(r.nextLink), fault)

\* the loop over *page.Model: the matching items are appended in order
RECURSIVE AppendEach(_, _, _)
AppendEach(acc, values, p) ==
  IF values = <<>> THEN acc
  ELSE AppendEach(IF Matches(p, Head(values)) THEN Append(acc, Head(values)) ELSE acc,
                  Tail(values), p)

\* variant of the loop: it leaves at the first item the predicate rejects
RECURSIVE AppendEachUntilMismatch(_, _, _)
AppendEachUntilMismatch(acc, values, p) ==
  IF values = <<>> THEN acc
  ELSE IF Matches(p, Head(values))
       THEN AppendEachUntilMismatch(Append(acc, Head(values)), Tail(values), p)
       ELSE acc

AppendUntilMismatch(acc, model, p) ==
  IF model = NilPtr THEN acc ELSE AppendEachUntilMismatch(acc, Deref(model), p)

\* variant of the loop: it starts over with every page
AppendOverwriting(acc, model, p) ==
  IF model = NilPtr THEN acc ELSE AppendEach(<<>>, Deref(model), p)

\* "if page.Model != nil { for _, v := range *page.Model { ... } }"
AppendMatching(acc, model, p) ==
  IF model = NilPtr THEN acc ELSE AppendEach(acc, Deref(model), p)

\* variant of FailedResult: the items accumulated so far are returned
FailedResultKeepingItems(acc, err) == [Items |-> acc, err |-> err]

\* the named results at an early return: resp was never assigned
FailedResult(acc, err) == [Items |-> <<>>, err |-> err]

\* fmt.Errorf("loading the initial page: %+v", err) and its sibling
Wrapped(context, err) == [err EXCEPT !.context = context]

NoOut == [Items |-> <<>>, err |-> NoErr]

\* LoadMore was not called on a last page
NoMore == [called |-> FALSE, resp |-> ZeroResponse, err |-> NoErr, sent |-> 0]

\* no call to the client was made yet
NoCall ==
  [op |-> "none", stages |-> <<>>, req |-> NoRequest, http |-> NoHttpResponse,
   err |-> NoErr, sent |-> 0]

\* what a call to the client leaves behind
CallRecord(op, r) ==
  [op |-> op, stages |-> r.stages, req |-> r.req, http |-> r.resp.HttpResponse,
   err |-> r.err, sent |-> r.sent]

ListInit ==
  /\ server \in Servers
  /\ predicate \in Predicates
  /\ lpc = "start"
  /\ page = ZeroResponse
  /\ items = <<>>
  /\ completeItems = <<>>
  /\ out = NoOut
  /\ trail = <<>>
  /\ sends = 0
  /\ linkQuery \in LinkQueries
  /\ lastCall = NoCall
  /\ more = NoMore

\* the list client at rest, while another part runs
ListIdle ==
  /\ server = <<[value |-> <<>>, nextLink |-> Absent]>>
  /\ predicate = CompletePredicate
  /\ lpc = "off"
  /\ page = ZeroResponse
  /\ items = <<>>
  /\ completeItems = <<>>
  /\ out = NoOut
  /\ trail = <<>>
  /\ sends = 0
  /\ linkQuery = Nil
  /\ lastCall = NoCall
  /\ more = NoMore

\* ListByServerCompleteMatchingPredicate up to its loop: the initial page
ListInitialPage ==
  /\ lpc = "start"
  /\ \E fault \in Faults :
       LET r == ListByServer(1, fault)
       IN /\ sends' = sends + r.sent
          /\ lastCall' = CallRecord("ListByServer", r)
          /\ IF r.err # NoErr
             THEN /\ out' = FailedResult(items, Wrapped("loading the initial page", r.err))
                  /\ lpc' = "failed"
                  /\ UNCHANGED <<page, items, completeItems, trail>>
             ELSE /\ page' = r.resp
                  /\ items' = AppendMatching(items, r.resp.Model, predicate)
                  /\ completeItems' = AppendMatching(completeItems, r.resp.Model, CompletePredicate)
                  /\ trail' = Append(trail, 1)
                  /\ lpc' = "paging"
                  /\ UNCHANGED out
  /\ UNCHANGED <<server, predicate, linkQuery, more>>
  /\ UNCHANGED idVars
  /\ UNCHANGED crudVars
  /\ UNCHANGED sslVars

\* one turn of the loop "for page.HasMore()": load the next page
ListNextPage ==
  /\ lpc = "paging"
  /\ HasMore(page)
  /\ sends < MaxRequests
  /\ \E fault \in Faults :
       LET r == LoadMore(page, fault)
       IN /\ sends' = sends + r.sent
          /\ lastCall' = CallRecord("LoadMore", r)
          /\ IF r.err # NoErr
             THEN /\ out' = FailedResult(items, Wrapped("loading the next page", r.err))
                  /\ lpc' = "failed"
                  /\ UNCHANGED <<page, items, completeItems, trail>>
             ELSE /\ page' = r.resp
                  /\ items' = AppendMatching(items, r.resp.Model, predicate)
                  /\ completeItems' = AppendMatching(completeItems, r.resp.Model, CompletePredicate)
                  /\ trail' = Append(trail, Deref(page.nextLink))
                  /\ UNCHANGED <<lpc, out>>
  /\ UNCHANGED <<server, predicate, linkQuery, more>>
  /\ UNCHANGED idVars
  /\ UNCHANGED crudVars
  /\ UNCHANGED sslVars

\* the loop ends and the accumulated items are returned
ListReturn ==
  /\ lpc = "paging"
  /\ ~HasMore(page)
  /\ out' = [Items |-> items, err |-> NoErr]
  /\ lpc' = "done"
  /\ UNCHANGED <<server, predicate, page, items, completeItems, trail, sends, linkQuery, lastCall, more>>
  /\ UNCHANGED idVars
  /\ UNCHANGED crudVars
  /\ UNCHANGED sslVars

\* one call of ObjectReplicationPoliciesClient.List (a listing in one response)
ListPolicies ==
  /\ lpc = "start"
  /\ \E fault \in Faults :
       LET r == List(fault)
       IN /\ sends' = sends + r.sent
          /\ lastCall' = CallRecord("List", r)
  /\ lpc' = "listed"
  /\ UNCHANGED <<server, predicate, page, items, completeItems, out, trail, linkQuery, more>>
  /\ UNCHANGED idVars
  /\ UNCHANGED crudVars
  /\ UNCHANGED sslVars

\* a caller invokes LoadMore on the page the drain ended with
ListLoadMoreAtEnd ==
  /\ lpc = "done"
  /\ \E fault \in Faults :
       LET r == LoadMore(page, fault)
       IN /\ more' = [called |-> TRUE, resp |-> r.resp, err |-> r.err, sent |-> r.sent]
          /\ sends' = sends + r.sent
  /\ lpc' = "ended"
  /\ UNCHANGED <<server, predicate, page, items, completeItems, out, trail, linkQuery, lastCall>>
  /\ UNCHANGED idVars
  /\ UNCHANGED crudVars
  /\ UNCHANGED sslVars

ListNext ==
  \/ ListInitialPage
  \/ ListNextPage
  \/ ListReturn
  \/ ListPolicies
  \/ ListLoadMoreAtEnd

(***************************************************************************)
(* The resource CRUD handlers.  A handler invocation is a sequence of      *)
(* steps, one per call to the service; between two steps the service and   *)
(* other actors may act.                                                   *)
(***************************************************************************)
Res == {"r1", "r2"}

Kinds == {"redis", "table"}

\* variant of IdOf: the ID does not depend on the association
IdOfShared(r) == "r1"

\* id.ID(): the formatted ID of the resource instance
IdOf(r) == r

EmptyId == ""

\* how the service may answer a Get while the object is in a state:
\* "found" (200), "notfound" (404 with an error), "error" (any other failure)
GetOutcomes(st) ==
  {"error"} \cup
  (CASE st = "NotExists" -> {"notfound"}
     [] st \in {"Exists", "Updating"} -> {"found"}
     [] OTHER -> {"found", "notfound"})

\* whether the call returned an error: everything but a 200
Failed(o) == o # "found"

\* utils.ResponseWasNotFound
ResponseWasNotFound(o) == o = "notfound"

\* variant of RedisExistenceCheck: an existing object is not reported
RedisExistenceCheckOverwriting(o) ==
  IF Failed(o) /\ ~ResponseWasNotFound(o) THEN "checking" ELSE "proceed"

\* variant of RedisExistenceCheck: a missing object is reported as existing
RedisExistenceCheckInverted(o) ==
  IF Failed(o) /\ ~ResponseWasNotFound(o) THEN "checking"
  ELSE IF ResponseWasNotFound(o) THEN "already-exists"
  ELSE "proceed"

\* the existence probe of resourceSpringCloudAppRedisAssociationCreateUpdate
RedisExistenceCheck(o) ==
  IF Failed(o) /\ ~ResponseWasNotFound(o) THEN "checking"
  ELSE IF ~ResponseWasNotFound(o) THEN "already-exists"
  ELSE "proceed"

\* the existence probe of OutputTableResource.Create
TableExistenceCheck(o) ==
  IF Failed(o) /\ ~ResponseWasNotFound(o) THEN "checking"
  ELSE IF ~ResponseWasNotFound(o) THEN "already-exists"
  ELSE "proceed"

\* variant of ReadOutcome: not-found is an error like any other
ReadOutcomeFailingOnNotFound(id, o) ==
  IF Failed(o) THEN [id |-> id, res |-> "reading", sets |-> FALSE]
  ELSE [id |-> id, res |-> "ok", sets |-> TRUE]

\* variant of ReadOutcome: every failed Get removes the resource from state
ReadOutcomeClearingOnError(id, o) ==
  IF Failed(o)
  THEN IF ResponseWasNotFound(o)
       THEN [id |-> EmptyId, res |-> "ok", sets |-> FALSE]
       ELSE [id |-> EmptyId, res |-> "reading", sets |-> FALSE]
  ELSE [id |-> id, res |-> "ok", sets |-> TRUE]

\* variant of ReadOutcome: the ID is cleared after every Get that did not fail
ReadOutcomeClearingAlways(id, o) ==
  IF Failed(o)
  THEN IF ResponseWasNotFound(o)
       THEN [id |-> EmptyId, res |-> "ok", sets |-> FALSE]
       ELSE [id |-> id, res |-> "reading", sets |-> FALSE]
  ELSE [id |-> EmptyId, res |-> "ok", sets |-> TRUE]

\* what resourceSpringCloudAppRedisAssociationRead does with the answer to
\* its Get: the ID it leaves in d, whether it reaches the d.Set calls and
\* what it returns ("reading": fmt.Errorf("reading %s: %+v", id, err))
ReadOutcome(id, o) ==
  IF Failed(o)
  THEN IF ResponseWasNotFound(o)
       THEN [id |-> EmptyId, res |-> "ok", sets |-> FALSE]
       ELSE [id |-> id, res |-> "reading", sets |-> FALSE]
  ELSE [id |-> id, res |-> "ok", sets |-> TRUE]

\* parse.SpringCloudAppAssociationID(d.Id()) fails on an empty ID
ParsesAsId(id) == id # EmptyId

CrudIdle ==
  /\ insts = {}
  /\ kind = [r \in Res |-> "redis"]
  /\ remote = [r \in Res |-> "NotExists"]
  /\ tracked = [r \in Res |-> EmptyId]
  /\ isNew = [r \in Res |-> FALSE]
  /\ hop = [r \in Res |-> "none"]
  /\ hpc = [r \in Res |-> "idle"]
  /\ probe = [r \in Res |-> "none"]
  /\ got = [r \in Res |-> "none"]
  /\ calls = [r \in Res |-> <<>>]
  /\ answers = [r \in Res |-> <<>>]
  /\ clean = [r \in Res |-> TRUE]
  /\ attrs = [r \in Res |-> "none"]
  /\ hres = [r \in Res |-> "none"]

\* one resource instance of either kind, nothing created yet
CrudInit ==
  /\ insts = {"r1"}
  /\ kind \in [Res -> Kinds]
  /\ kind["r2"] = "redis"
  /\ remote = [r \in Res |-> "NotExists"]
  /\ tracked = [r \in Res |-> EmptyId]
  /\ isNew = [r \in Res |-> FALSE]
  /\ hop = [r \in Res |-> "none"]
  /\ hpc = [r \in Res |-> "idle"]
  /\ probe = [r \in Res |-> "none"]
  /\ got = [r \in Res |-> "none"]
  /\ calls = [r \in Res |-> <<>>]
  /\ answers = [r \in Res |-> <<>>]
  /\ clean = [r \in Res |-> TRUE]
  /\ attrs = [r \in Res |-> "none"]
  /\ hres = [r \in Res |-> "none"]

\* two resource instances with distinct IDs, nothing created yet
CrudInitTwo ==
  /\ insts = Res
  /\ kind \in [Res -> Kinds]
  /\ kind["r1"] = "redis"
  /\ remote = [r \in Res |-> "NotExists"]
  /\ tracked = [r \in Res |-> EmptyId]
  /\ isNew = [r \in Res |-> FALSE]
  /\ hop = [r \in Res |-> "none"]
  /\ hpc = [r \in Res |-> "idle"]
  /\ probe = [r \in Res |-> "none"]
  /\ got = [r \in Res |-> "none"]
  /\ calls = [r \in Res |-> <<>>]
  /\ answers = [r \in Res |-> <<>>]
  /\ clean = [r \in Res |-> TRUE]
  /\ attrs = [r \in Res |-> "none"]
  /\ hres = [r \in Res |-> "none"]

\* the operations a resource kind registers
Registered(k) ==
  IF k = "redis" THEN {"create", "update", "read", "delete"}
  ELSE {"create", "read", "delete"}

\* the orchestrator invokes an operation on an instance that is at rest:
\* Create on an instance without state, the others on a tracked one
Invoke(r, op) ==
  /\ r \in insts
  /\ hpc[r] \in {"idle", "done"}
  /\ op \in Registered(kind[r])
  /\ IF op = "create"
     THEN tracked[r] = EmptyId \/ (hop[r] = "delete" /\ hres[r] = "ok")
     ELSE tracked[r] # EmptyId /\ ~(hop[r] = "delete" /\ hres[r] = "ok")
  /\ hop' = [hop EXCEPT ![r] = op]
  /\ hpc' = [hpc EXCEPT ![r] = IF op = "read" THEN "read" ELSE "start"]
  /\ isNew' = [isNew EXCEPT ![r] = (op = "create")]
  /\ tracked' = [tracked EXCEPT ![r] = IF op = "create" THEN EmptyId ELSE @]
  /\ probe' = [probe EXCEPT ![r] = "none"]
  /\ got' = [got EXCEPT ![r] = "none"]
  /\ calls' = [calls EXCEPT ![r] = <<>>]
  /\ answers' = [answers EXCEPT ![r] = <<>>]
  /\ hres' = [hres EXCEPT ![r] = "none"]
  /\ attrs' = [attrs EXCEPT ![r] = IF op \in {"create", "update"} THEN "config" ELSE @]
  /\ UNCHANGED <<insts, kind, remote, clean>>
  /\ UNCHANGED <<idVars, listVars, sslVars>>

\* an instance stays clean as long as no invocation on it returned an error
StaysClean(r) ==
  clean' = [clean EXCEPT ![r] = @ /\ hres'[r] \in {"none", "ok"}]

\* variant of ProbesExistence: the probe is made for every resource
ProbesExistenceAlways(new) == TRUE

\* `if d.IsNewResource()`: whether CreateUpdate makes the existence probe
ProbesExistence(new) == new

\* resourceSpringCloudAppRedisAssociationCreateUpdate up to CreateOrUpdate:
\* the existence probe, made only for a new resource
RedisProbe(r) ==
  /\ r \in insts /\ kind[r] = "redis"
  /\ hop[r] \in {"create", "update"} /\ hpc[r] = "start"
  /\ IF ProbesExistence(isNew[r])
     THEN \E o \in GetOutcomes(remote[IdOf(r)]) :
            LET v == RedisExistenceCheck(o)
            IN /\ probe' = [probe EXCEPT ![r] = o]
               /\ calls' = [calls EXCEPT ![r] = Append(@, "Get")]
               /\ answers' = [answers EXCEPT ![r] = Append(@, o)]
               /\ IF v = "proceed"
                  THEN /\ hpc' = [hpc EXCEPT ![r] = "call"]
                       /\ UNCHANGED hres
                  ELSE /\ hpc' = [hpc EXCEPT ![r] = "done"]
                       /\ hres' = [hres EXCEPT ![r] = v]
     ELSE /\ hpc' = [hpc EXCEPT ![r] = "call"]
          /\ UNCHANGED <<probe, calls, answers, hres>>
  /\ StaysClean(r)
  /\ UNCHANGED <<insts, kind, remote, tracked, isNew, hop, got, attrs>>
  /\ UNCHANGED <<idVars, listVars, sslVars>>

\* how a call that starts a long-running operation may end: the service
\* accepts it, the call fails, or the deadline of ctx expires during it
CallOutcomes == {"accepted", "error", "timeout"}

\* how future.WaitForCompletionRef may end
WaitOutcomes == {"completed", "failed", "timeout"}

\* variant of AfterCreateOrUpdate: a call that timed out is issued again
AfterCreateOrUpdateRetrying(o) ==
  IF o = "accepted" THEN [pc |-> "wait", res |-> "none"]
  ELSE IF o = "timeout" THEN [pc |-> "call", res |-> "none"]
  ELSE [pc |-> "done", res |-> "creating"]

\* what CreateUpdate does with the answer to client.CreateOrUpdate: it goes
\* on to the wait, or returns "creating %s: %+v"
AfterCreateOrUpdate(o) ==
  IF o = "accepted" THEN [pc |-> "wait", res |-> "none"]
  ELSE [pc |-> "done", res |-> "creating"]

\* client.CreateOrUpdate: the service accepts the request and starts the
\* long-running operation, or the call fails
RedisCreateOrUpdate(r) ==
  /\ r \in insts /\ kind[r] = "redis"
  /\ hop[r] \in {"create", "update"} /\ hpc[r] = "call"
  /\ calls' = [calls EXCEPT ![r] = Append(@, "CreateOrUpdate")]
  /\ \E o \in CallOutcomes :
       LET v == AfterCreateOrUpdate(o)
       IN /\ answers' = [answers EXCEPT ![r] = Append(@, o)]
          /\ remote' = IF o = "accepted"
                       THEN [remote EXCEPT ![IdOf(r)] = IF @ = "NotExists" THEN "Creating" ELSE "Updating"]
                       ELSE remote
          /\ hpc' = [hpc EXCEPT ![r] = v.pc]
          /\ hres' = [hres EXCEPT ![r] = v.res]
  /\ StaysClean(r)
  /\ UNCHANGED <<insts, kind, tracked, isNew, hop, probe, got, attrs>>
  /\ UNCHANGED <<idVars, listVars, sslVars>>

\* variant of AfterWait: the ID is set before the wait's error is looked at
AfterWaitSettingId(o, id, cur) ==
  IF o = "completed" THEN [pc |-> "read", id |-> id, res |-> "none"]
  ELSE [pc |-> "done", id |-> id, res |-> "waiting"]

\* variant of AfterWait: the wait's error is dropped
AfterWaitIgnoringError(o, id, cur) ==
  [pc |-> "read", id |-> id, res |-> "none"]

\* what CreateUpdate does with the result of future.WaitForCompletionRef:
\* d.SetId(id.ID()) and the follow-up Read, or "waiting for creation/update"
\* with the ID left as it is (cur)
AfterWait(o, id, cur) ==
  IF o = "completed" THEN [pc |-> "read", id |-> id, res |-> "none"]
  ELSE [pc |-> "done", id |-> cur, res |-> "waiting"]

\* future.WaitForCompletionRef, then d.SetId(id.ID())
RedisWait(r) ==
  /\ r \in insts /\ kind[r] = "redis"
  /\ hop[r] \in {"create", "update"} /\ hpc[r] = "wait"
  /\ calls' = [calls EXCEPT ![r] = Append(@, "Wait")]
  /\ \E o \in WaitOutcomes :
       LET v == AfterWait(o, IdOf(r), tracked[r])
       IN /\ answers' = [answers EXCEPT ![r] = Append(@, o)]
          /\ remote' = IF o = "completed"
                       THEN [remote EXCEPT ![IdOf(r)] = "Exists"]
                       ELSE remote
          /\ tracked' = [tracked EXCEPT ![r] = v.id]
          /\ hpc' = [hpc EXCEPT ![r] = v.pc]
          /\ hres' = [hres EXCEPT ![r] = v.res]
  /\ StaysClean(r)
  /\ UNCHANGED <<insts, kind, isNew, hop, probe, got, attrs>>
  /\ UNCHANGED <<idVars, listVars, sslVars>>

\* resourceSpringCloudAppRedisAssociationRead, invoked by the orchestrator or
\* at the end of CreateUpdate
RedisRead(r) ==
  /\ r \in insts /\ kind[r] = "redis"
  /\ hpc[r] = "read"
  /\ IF ~ParsesAsId(tracked[r])
     THEN /\ hres' = [hres EXCEPT ![r] = "parse"]
          /\ UNCHANGED <<got, calls, answers, tracked, attrs>>
     ELSE \E o \in GetOutcomes(remote[tracked[r]]) :
            LET v == ReadOutcome(tracked[r], o)
            IN /\ got' = [got EXCEPT ![r] = o]
               /\ calls' = [calls EXCEPT ![r] = Append(@, "Get")]
               /\ answers' = [answers EXCEPT ![r] = Append(@, o)]
               /\ tracked' = [tracked EXCEPT ![r] = v.id]
               /\ attrs' = [attrs EXCEPT ![r] = IF v.sets THEN "remote" ELSE @]
               /\ hres' = [hres EXCEPT ![r] = v.res]
  /\ hpc' = [hpc EXCEPT ![r] = "done"]
  /\ StaysClean(r)
  /\ UNCHANGED <<insts, kind, remote, isNew, hop, probe>>
  /\ UNCHANGED <<idVars, listVars, sslVars>>

\* how the service may answer the Delete call: "accepted" (the long-running
\* deletion starts), "nocontent" (nothing to delete), "notfound" (404),
\* "error", or the deadline of ctx expires during the call ("timeout")
DeleteOutcomes(st) ==
  {"error", "timeout"} \cup
  (IF st = "NotExists" THEN {"nocontent", "notfound"} ELSE {"accepted"})

\* what Delete does with the answer to client.Delete: any error, a 404
\* included, is returned as "deleting %s: %+v"
AfterDelete(o) ==
  IF o \in {"accepted", "nocontent"} THEN [pc |-> "wait", res |-> "none"]
  ELSE [pc |-> "done", res |-> "deleting"]

\* resourceSpringCloudAppRedisAssociationDelete up to the wait: client.Delete
RedisDelete(r) ==
  /\ r \in insts /\ kind[r] = "redis"
  /\ hop[r] = "delete" /\ hpc[r] = "start"
  /\ IF ~ParsesAsId(tracked[r])
     THEN /\ hpc' = [hpc EXCEPT ![r] = "done"]
          /\ hres' = [hres EXCEPT ![r] = "parse"]
          /\ UNCHANGED <<calls, answers, remote>>
     ELSE /\ calls' = [calls EXCEPT ![r] = Append(@, "Delete")]
          /\ \E o \in DeleteOutcomes(remote[tracked[r]]) :
               LET v == AfterDelete(o)
               IN /\ answers' = [answers EXCEPT ![r] = Append(@, o)]
                  /\ remote' = IF o = "accepted"
                               THEN [remote EXCEPT ![tracked[r]] = "Deleting"]
                               ELSE remote
                  /\ hpc' = [hpc EXCEPT ![r] = v.pc]
                  /\ hres' = [hres EXCEPT ![r] = v.res]
  /\ StaysClean(r)
  /\ UNCHANGED <<insts, kind, tracked, isNew, hop, probe, got, attrs>>
  /\ UNCHANGED <<idVars, listVars, sslVars>>

\* variant of AfterDeleteWait: the wait's error is dropped
AfterDeleteWaitIgnoringError(o) == "ok"

\* what Delete returns after future.WaitForCompletionRef: nil, or
\* "waiting for deletion of %s: %+v"
AfterDeleteWait(o) == IF o = "completed" THEN "ok" ELSE "waiting"

\* future.WaitForCompletionRef of the deletion
RedisDeleteWait(r) ==
  /\ r \in insts /\ kind[r] = "redis"
  /\ hop[r] = "delete" /\ hpc[r] = "wait"
  /\ calls' = [calls EXCEPT ![r] = Append(@, "Wait")]
  /\ hpc' = [hpc EXCEPT ![r] = "done"]
  /\ \E o \in WaitOutcomes :
       /\ answers' = [answers EXCEPT ![r] = Append(@, o)]
       /\ remote' = IF o = "completed"
                    THEN [remote EXCEPT ![tracked[r]] = "NotExists"]
                    ELSE remote
       /\ hres' = [hres EXCEPT ![r] = AfterDeleteWait(o)]
  /\ StaysClean(r)
  /\ UNCHANGED <<insts, kind, tracked, isNew, hop, probe, got, attrs>>
  /\ UNCHANGED <<idVars, listVars, sslVars>>

\* OutputTableResource.Create up to CreateOrReplace: the existence probe
TableProbe(r) ==
  /\ r \in insts /\ kind[r] = "table"
  /\ hop[r] = "create" /\ hpc[r] = "start"
  /\ \E o \in GetOutcomes(remote[IdOf(r)]) :
       LET v == TableExistenceCheck(o)
       IN /\ probe' = [probe EXCEPT ![r] = o]
          /\ calls' = [calls EXCEPT ![r] = Append(@, "Get")]
          /\ answers' = [answers EXCEPT ![r] = Append(@, o)]
          /\ IF v = "proceed"
             THEN /\ hpc' = [hpc EXCEPT ![r] = "call"]
                  /\ UNCHANGED hres
             ELSE /\ hpc' = [hpc EXCEPT ![r] = "done"]
                  /\ hres' = [hres EXCEPT ![r] = v]
  /\ StaysClean(r)
  /\ UNCHANGED <<insts, kind, remote, tracked, isNew, hop, got, attrs>>
  /\ UNCHANGED <<idVars, listVars, sslVars>>

\* client.CreateOrReplace (not a long-running operation), then metadata.SetID(id)
TableCreateOrReplace(r) ==
  /\ r \in insts /\ kind[r] = "table"
  /\ hop[r] = "create" /\ hpc[r] = "call"
  /\ calls' = [calls EXCEPT ![r] = Append(@, "CreateOrReplace")]
  /\ hpc' = [hpc EXCEPT ![r] = "done"]
  /\ \E succeeded \in BOOLEAN :
       IF succeeded
       THEN /\ answers' = [answers EXCEPT ![r] = Append(@, "succeeded")]
            /\ remote' = [remote EXCEPT ![IdOf(r)] = "Exists"]
            /\ tracked' = [tracked EXCEPT ![r] = IdOf(r)]
            /\ hres' = [hres EXCEPT ![r] = "ok"]
       ELSE /\ answers' = [answers EXCEPT ![r] = Append(@, "error")]
            /\ hres' = [hres EXCEPT ![r] = "creating"]
            /\ UNCHANGED <<remote, tracked>>
  /\ StaysClean(r)
  /\ UNCHANGED <<insts, kind, isNew, hop, probe, got, attrs>>
  /\ UNCHANGED <<idVars, listVars, sslVars>>

\* OutputTableResource.Read: an empty body that returns nil
TableRead(r) ==
  /\ r \in insts /\ kind[r] = "table"
  /\ hop[r] = "read" /\ hpc[r] = "read"
  /\ hpc' = [hpc EXCEPT ![r] = "done"]
  /\ hres' = [hres EXCEPT ![r] = "ok"]
  /\ UNCHANGED <<insts, kind, remote, tracked, isNew, hop, probe, got, calls, answers, clean, attrs>>
  /\ UNCHANGED <<idVars, listVars, sslVars>>

\* OutputTableResource.Delete: an empty body that returns nil
TableDelete(r) ==
  /\ r \in insts /\ kind[r] = "table"
  /\ hop[r] = "delete" /\ hpc[r] = "start"
  /\ hpc' = [hpc EXCEPT ![r] = "done"]
  /\ hres' = [hres EXCEPT ![r] = "ok"]
  /\ UNCHANGED <<insts, kind, remote, tracked, isNew, hop, probe, got, calls, answers, clean, attrs>>
  /\ UNCHANGED <<idVars, listVars, sslVars>>

\* another actor creates the remote object (outside the tool)
ExternalCreate(r) ==
  /\ r \in insts
  /\ remote[r] = "NotExists"
  /\ remote' = [remote EXCEPT ![r] = "Exists"]
  /\ clean' = [clean EXCEPT ![r] = FALSE]
  /\ UNCHANGED <<insts, kind, tracked, isNew, hop, hpc, probe, got, calls, answers, hres, attrs>>
  /\ UNCHANGED <<idVars, listVars, sslVars>>

\* another actor deletes the remote object (outside the tool)
ExternalDelete(r) ==
  /\ r \in insts
  /\ remote[r] = "Exists"
  /\ remote' = [remote EXCEPT ![r] = "NotExists"]
  /\ clean' = [clean EXCEPT ![r] = FALSE]
  /\ UNCHANGED <<insts, kind, tracked, isNew, hop, hpc, probe, got, calls, answers, hres, attrs>>
  /\ UNCHANGED <<idVars, listVars, sslVars>>

\* a long-running operation nobody waits for any more runs to its end
ServiceSettles(r) ==
  /\ r \in insts
  /\ hpc[r] # "wait"
  /\ remote[r] \in {"Creating", "Updating", "Deleting"}
  /\ remote' = [remote EXCEPT ![r] = IF @ = "Deleting" THEN "NotExists" ELSE "Exists"]
  /\ UNCHANGED <<insts, kind, tracked, isNew, hop, hpc, probe, got, calls, answers, clean, hres, attrs>>
  /\ UNCHANGED <<idVars, listVars, sslVars>>

CrudNext ==
  \/ \E r \in Res, op \in {"create", "update", "read", "delete"} : Invoke(r, op)
  \/ \E r \in Res : RedisProbe(r)
  \/ \E r \in Res : RedisCreateOrUpdate(r)
  \/ \E r \in Res : RedisWait(r)
  \/ \E r \in Res : RedisRead(r)
  \/ \E r \in Res : RedisDelete(r)
  \/ \E r \in Res : RedisDeleteWait(r)
  \/ \E r \in Res : TableProbe(r)
  \/ \E r \in Res : TableCreateOrReplace(r)
  \/ \E r \in Res : TableRead(r)
  \/ \E r \in Res : TableDelete(r)
  \/ \E r \in Res : ExternalCreate(r)
  \/ \E r \in Res : ExternalDelete(r)
  \/ \E r \in Res : ServiceSettles(r)

(***************************************************************************)
(* The ssl_enabled attribute of the Spring Cloud Redis association: what   *)
(* Create sends for it and what Read makes of the service's answer.        *)
(***************************************************************************)
\* springCloudAppRedisAssociationKeySSL
springCloudAppRedisAssociationKeySSL == "useSsl"

\* strings.EqualFold on the characters of the model (ASCII letters fold)
EqualFold(a, b) == ToUpper(a) = ToUpper(b)

\* the string form of a bool (strconv.FormatBool)
FormatBool(b) == IF b THEN <<"t","r","u","e">> ELSE <<"f","a","l","s","e">>

\* the string values the service may hold under the key
SslStrings ==
  { <<"t","r","u","e">>, <<"T","r","u","e">>, <<"T","R","U","E">>, <<"t","R","u","E">>,
    <<"f","a","l","s","e">>, <<"F","a","l","s","e">>, <<"F","A","L","S","E">>,
    <<"y","e","s">>, <<"n","o">>, <<"o","n">>, <<"1">>, <<"0">>, <<>> }

\* what a Get can return: no Properties at all, BindingParameters without
\* the key, the key with a string value, or the key with a JSON boolean
\* (which Go decodes into a bool inside map[string]interface{})
NoProps == [kind |-> "noprops", val |-> <<>>]

SslParams ==
  {NoProps, [kind |-> "absent", val |-> <<>>]}
    \cup {[kind |-> "string", val |-> v] : v \in SslStrings}
    \cup {[kind |-> "bool", val |-> FormatBool(b)] : b \in BOOLEAN}

\* BindingParameters of the request of Create: the key with d.Get("ssl_enabled").(bool)
SentBindingParameters(b) == [kind |-> "bool", val |-> FormatBool(b)]

\* the Read in which the comparison with "true" is exact
ReadSslEnabledCaseSensitive(w, cur) ==
  IF w.kind = "noprops" THEN [panics |-> FALSE, ssl |-> cur]
  ELSE IF w.kind = "bool" THEN [panics |-> TRUE, ssl |-> cur]
  ELSE LET enableSSL == IF w.kind = "string" THEN w.val ELSE FormatBool(FALSE)
       IN [panics |-> FALSE, ssl |-> (enableSSL = FormatBool(TRUE))]

\* the props block of Read: nothing is set without Properties; the value
\* under the key is asserted to be a string (a failed assertion panics);
\* ssl_enabled becomes strings.EqualFold(enableSSL, "true")
ReadSslEnabled(w, cur) ==
  IF w.kind = "noprops" THEN [panics |-> FALSE, ssl |-> cur]
  ELSE IF w.kind = "bool" THEN [panics |-> TRUE, ssl |-> cur]
  ELSE LET enableSSL == IF w.kind = "string" THEN w.val ELSE FormatBool(FALSE)
       IN [panics |-> FALSE, ssl |-> EqualFold(enableSSL, FormatBool(TRUE))]

SslIdle ==
  /\ sslConfig = FALSE
  /\ sslParam = NoProps
  /\ sslEnabled = FALSE
  /\ sslPc = "off"

\* a new resource: d holds the configuration
SslInit ==
  /\ sslConfig \in BOOLEAN
  /\ sslParam = NoProps
  /\ sslEnabled = sslConfig
  /\ sslPc = "new"

\* Create up to the end of the long-running operation: the request carries
\* the bool; how the service stores and returns it is the service's choice
\* (returning what was sent is one of the choices)
SslCreate ==
  /\ sslPc = "new"
  /\ \E w \in SslParams \cup {SentBindingParameters(sslConfig)} : sslParam' = w
  /\ sslPc' = "created"
  /\ UNCHANGED <<sslConfig, sslEnabled>>
  /\ UNCHANGED <<idVars, listVars, crudVars>>

\* Read with a successful Get: the Read that ends Create, or a later refresh
SslRead ==
  /\ sslPc \in {"created", "stale"}
  /\ LET v == ReadSslEnabled(sslParam, sslEnabled)
     IN /\ sslEnabled' = v.ssl
        /\ sslPc' = IF v.panics THEN "panicked"
                    ELSE IF sslPc = "created" THEN "read" ELSE "refreshed"
  /\ UNCHANGED <<sslConfig, sslParam>>
  /\ UNCHANGED <<idVars, listVars, crudVars>>

\* the binding is changed outside Terraform
SslDrift ==
  /\ sslPc \in {"read", "refreshed"}
  /\ \E w \in SslParams : w # sslParam /\ sslParam' = w
  /\ sslPc' = "stale"
  /\ UNCHANGED <<sslConfig, sslEnabled>>
  /\ UNCHANGED <<idVars, listVars, crudVars>>

SslNext ==
  \/ SslCreate
  \/ SslRead
  \/ SslDrift

(***************************************************************************)
(* The specifications.                                                     *)
(***************************************************************************)
InitId == IdInit /\ ListIdle /\ CrudIdle /\ SslIdle

SpecId == InitId /\ [][IdNext]_vars

InitList == IdIdle /\ ListInit /\ CrudIdle /\ SslIdle

SpecList == InitList /\ [][ListNext]_vars

\* the list client as sequential code that keeps running: a call that can
\* take its next step takes it
SpecListLive == InitList /\ [][ListNext]_vars /\ WF_vars(ListNext)

InitCrud == IdIdle /\ ListIdle /\ CrudInit /\ SslIdle

SpecCrud == InitCrud /\ [][CrudNext]_vars

\* the handlers of two instances, their steps interleaved
InitCrudTwo == IdIdle /\ ListIdle /\ CrudInitTwo /\ SslIdle

SpecCrudTwo == InitCrudTwo /\ [][CrudNext]_vars

\* the ssl_enabled attribute through Create, Read and refreshes
InitSsl == IdIdle /\ ListIdle /\ CrudIdle /\ SslInit

SpecSsl == InitSsl /\ [][SslNext]_vars

(***************************************************************************)
(* Properties of the resource ID codec (under SpecId).                     *)
(***************************************************************************)
\* the tuple was formatted and the formatted string itself was parsed
IdRoundTripped == idPc = "parsed" /\ idHow = "valid"

\* C1: for every valid component tuple x, parsing the formatted string
\* succeeds and recovers exactly the same components: Parse(Format(x)) = x.
C1_ParseFormatRoundTrip ==
  IdRoundTripped => (idRes.ok /\ idRes.id = idc)

\* a round trip of a tuple whose five components are not all the same
C1_Witness ==
  /\ IdRoundTripped
  /\ idRes.ok
  /\ idc.MonitorName # idc.AccountName
  /\ idc.SubscriptionId # idc.ResourceGroup

\* C2: the formatted identifier is "/subscriptions/{subscription}/resourceGroups/
\* {resourceGroup}/providers/Microsoft.Logz/monitors/{monitor}/accounts/{account}/
\* tagRules/{tagRule}": exactly these literal segments in this order with the
\* five values unchanged; for the example of the formatter test it is the
\* expected string, and parsing it yields the five original components.
C2_FormatLayout ==
  (idHow = "valid" /\ idPc \in {"formatted", "parsed"}) =>
    /\ Split(idStr) =
         << <<>>, LitSubscriptions, idc.SubscriptionId,
            LitResourceGroups, idc.ResourceGroup,
            LitProviders, LitMicrosoftLogz,
            LitMonitors, idc.MonitorName,
            LitAccounts, idc.AccountName,
            LitTagRules, idc.TagRuleName >>
    /\ (idc = ExampleId => idStr = ExampleIdString)
    /\ (idPc = "parsed" =>
          /\ idRes.ok
          /\ idRes.id.SubscriptionId = idc.SubscriptionId
          /\ idRes.id.ResourceGroup = idc.ResourceGroup
          /\ idRes.id.MonitorName = idc.MonitorName
          /\ idRes.id.AccountName = idc.AccountName
          /\ idRes.id.TagRuleName = idc.TagRuleName)

\* the example of the formatter test, formatted and parsed back
C2_Witness ==
  /\ idc = ExampleId
  /\ idHow = "valid"
  /\ idPc = "parsed"
  /\ idStr = ExampleIdString
  /\ idRes.ok

\* the position of the slash that precedes the last value of the formatted tuple
LastSlash == NthSlash(ID(idc), Len(IdLayout) - 1)

\* the input lacks a literal segment or the value following one
IdLacksSegment ==
  \/ idHow \in {"drop", "droppair", "blank"}
  \/ idHow = "prefix" /\ idCut <= LastSlash

\* C3: Parse fails for every identifier string that lacks a required literal
\* segment or the value following a segment, including the empty string, "/"
\* and every proper prefix of a valid identifier that ends at or before the
\* missing segment; no partial ID is returned.
C3_ParseFailsOnMissingSegment ==
  (idPc = "parsed" /\ IdLacksSegment) => (~idRes.ok /\ idRes.id = Nil)

\* the prefix that ends right after "/tagRules/" was parsed and rejected
C3_Witness ==
  /\ idPc = "parsed"
  /\ idHow = "prefix"
  /\ idCut = LastSlash
  /\ idStr # <<>>
  /\ ~idRes.ok

\* C4: Parse is case-sensitive on the literal segments: the upper-cased form
\* of every valid identifier string is rejected with an error.
C4_UpperCasedRejected ==
  (idPc = "parsed" /\ idHow = "upper") => (~idRes.ok /\ idRes.id = Nil)

\* an upper-cased identifier whose values are unchanged by upper-casing
C4_Witness ==
  /\ idPc = "parsed"
  /\ idHow = "upper"
  /\ idStr = ToUpper(ID(idc))
  /\ \A i \in IdValuePositions : Split(idStr)[i] = Split(ID(idc))[i]
  /\ ~idRes.ok

(***************************************************************************)
(* Properties of the paginated list client (under SpecList).               *)
(***************************************************************************)
\* the service holds N pages linked 1 -> 2 -> ... -> N -> (none)
IsChain ==
  /\ \A i \in 1..(Len(server) - 1) : server[i].nextLink = Link(i + 1)
  /\ server[Len(server)].nextLink \in {Absent, Null}

\* the items of pages i..N of the service, page after page
RECURSIVE PagesFrom(_)
PagesFrom(i) == IF i > Len(server) THEN <<>> ELSE server[i].value \o PagesFrom(i + 1)

\* C5: given N pages chained by continuation tokens and no failure,
\* ListByServerComplete returns exactly the concatenation of the items of
\* pages 1..N, in page order and in within-page order, nothing lost or duplicated.
C5_CompleteIsConcatenation ==
  (lpc = "done" /\ predicate = CompletePredicate /\ IsChain) =>
    (out.err = NoErr /\ out.Items = PagesFrom(1))

\* a drain of two non-empty pages that share an item
C5_Witness ==
  /\ lpc = "done"
  /\ predicate = CompletePredicate
  /\ IsChain
  /\ Len(server) >= 2
  /\ server[1].value = <<"b", "a">>
  /\ server[2].value = <<"a">>
  /\ SubSeq(out.Items, 1, 3) = <<"b", "a", "a">>

\* the page of the service the drain loaded last
LastLoaded == server[trail[Len(trail)]]

\* C6: HasMore() of a page is false exactly when its response carried no
\* nextLink (absent or null); draining a chain of N pages it is true on every
\* page before the last and false only on the last, and the drain does not
\* return at a page that carries a nextLink, with or without items.
C6_HasMoreIffNextLink ==
  (lpc \in {"paging", "done"}) =>
    /\ HasMore(page) <=> (LastLoaded.nextLink \notin {Absent, Null})
    /\ \A i \in 1..(Len(trail) - 1) : server[trail[i]].nextLink \notin {Absent, Null}
    /\ IsChain => /\ trail = [i \in 1..Len(trail) |-> i]
                  /\ HasMore(page) <=> (Len(trail) < Len(server))
    /\ lpc = "done" => (~HasMore(page) /\ LastLoaded.nextLink \in {Absent, Null})

\* a drain that went past a page with no items and a nextLink
C6_Witness ==
  /\ lpc = "done"
  /\ IsChain
  /\ Len(trail) >= 2
  /\ server[1].value = <<>>
  /\ server[1].nextLink = Link(2)
  /\ out.Items # <<>>

\* C7: for every page sequence and every predicate,
\* ListByServerCompleteMatchingPredicate returns the same ordered list as
\* draining the same pages with ListByServerComplete and filtering that list.
C7_FilterDuringEqualsFilterAfter ==
  (lpc = "done") =>
    out.Items = SelectSeq(completeItems, LAMBDA v : Matches(predicate, v))

\* a drain of two pages under a predicate that rejects some items and keeps some
C7_Witness ==
  /\ lpc = "done"
  /\ Len(trail) >= 2
  /\ predicate.Name = "a"
  /\ completeItems = <<"b", "a", "a">>
  /\ out.Items = <<"a", "a">>

\* C8: if fetching a page fails, the drain returns an error and no items (the
\* items of earlier pages are dropped) and issues no further request; the error
\* is prefixed "loading the initial page" when the first request failed and
\* "loading the next page" when a later one did.
C8_FailureDiscardsItems ==
  /\ [](lpc = "failed" =>
          /\ out.Items = <<>>
          /\ out.err # NoErr
          /\ (trail = <<>>) <=> (out.err.context = "loading the initial page")
          /\ (trail # <<>>) <=> (out.err.context = "loading the next page"))
  /\ [][lpc = "failed" => UNCHANGED <<lpc, out, sends, trail>>]_vars

\* a follow-up request failed after items had been accumulated
C8_Witness ==
  /\ lpc = "failed"
  /\ trail # <<>>
  /\ items # <<>>
  /\ out.Items = <<>>
  /\ out.err.context = "loading the next page"

(***************************************************************************)
(* Properties of the resource CRUD handlers (under SpecCrud).              *)
(***************************************************************************)
CreationCalls == {"CreateOrUpdate", "CreateOrReplace"}

\* the invocation on r has issued a creation call
IssuedCreation(r) == \E i \in DOMAIN calls[r] : calls[r][i] \in CreationCalls

\* C9: Create is check-then-create: when the existence probe of a Create finds
\* an object, the handler returns the already-exists (requires import) error,
\* issues no CreateOrUpdate / CreateOrReplace call and does not set the tracked
\* ID; the creation call is issued only when the probe reported not-found.
C9_CheckThenCreate ==
  \A r \in insts :
    (hop[r] = "create") =>
      /\ (probe[r] = "found") =>
           /\ hpc[r] = "done"
           /\ hres[r] = "already-exists"
           /\ ~IssuedCreation(r)
           /\ tracked[r] = EmptyId
      /\ (hres[r] = "already-exists") => (probe[r] = "found")
      /\ IssuedCreation(r) => (probe[r] = "notfound")

\* a Create of the Redis association that met an existing object
C9_Witness ==
  \E r \in insts :
    /\ kind[r] = "redis"
    /\ hop[r] = "create"
    /\ calls[r] = <<"Get">>
    /\ probe[r] = "found"
    /\ hres[r] = "already-exists"
    /\ remote[r] = "Exists"

\* C10: Read treats not-found as silent removal: when the Get for the tracked
\* ID answers not-found, Read clears the tracked ID and returns success, so an
\* object deleted outside the tool is detected by the next Read.
C10_ReadNotFoundClearsId ==
  \A r \in insts :
    (kind[r] = "redis" /\ hpc[r] = "done" /\ got[r] = "notfound") =>
      (tracked[r] = EmptyId /\ hres[r] = "ok")

\* a Read of a tracked association whose object is gone
C10_Witness ==
  \E r \in insts :
    /\ kind[r] = "redis"
    /\ hop[r] = "read"
    /\ hpc[r] = "done"
    /\ calls[r] = <<"Get">>
    /\ got[r] = "notfound"
    /\ remote[r] = "NotExists"
    /\ tracked[r] = EmptyId
    /\ hres[r] = "ok"

\* the calls of r's invocation that are call c
CallsOf(r, c) == { i \in DOMAIN calls[r] : calls[r][i] = c }

\* how the call c of r's invocation ended ("none": not issued)
AnswerTo(r, c) ==
  IF CallsOf(r, c) = {} THEN "none"
  ELSE answers[r][CHOOSE i \in CallsOf(r, c) : \A j \in CallsOf(r, c) : j <= i]

\* C11: Delete is idempotent: a Delete of the Redis association whose
\* deletion call answers not-found, the remote object being absent already,
\* returns success rather than an error.
C11_DeleteIdempotent ==
  \A r \in insts :
    (kind[r] = "redis" /\ hop[r] = "delete" /\ hpc[r] = "done"
       /\ AnswerTo(r, "Delete") = "notfound") => hres[r] = "ok"

\* the transitions of the remote object that the resource lifecycle allows
Lifecycle ==
  { <<"NotExists", "Creating">>, <<"Creating", "Exists">>,
    <<"Exists", "Updating">>, <<"Updating", "Exists">>,
    <<"Exists", "Deleting">>, <<"Deleting", "NotExists">> }

\* the invocation on r has returned nil
Succeeded(r) == hpc[r] = "done" /\ hres[r] = "ok"

\* C12: as long as every Create/Read/Update/Delete invocation on a Redis
\* association succeeds (and no other actor touches its object), the remote
\* object changes only along NotExists -> Creating -> Exists,
\* Exists -> Updating -> Exists and Exists -> Deleting -> NotExists; a
\* successful Create or Update ends with the object existing and a successful
\* Delete with it absent.
C12_RemoteLifecycle ==
  /\ [][\A r \in insts :
          (kind[r] = "redis" /\ clean[r] /\ clean'[r] /\ remote'[r] # remote[r])
            => <<remote[r], remote'[r]>> \in Lifecycle]_vars
  /\ [](\A r \in insts :
          (kind[r] = "redis" /\ clean[r] /\ Succeeded(r)) =>
            /\ hop[r] \in {"create", "update"} => remote[r] = "Exists"
            /\ hop[r] = "delete" => remote[r] = "NotExists")

\* a Redis association that was created and then deleted, every invocation
\* having succeeded
C12_Witness ==
  \E r \in insts :
    /\ kind[r] = "redis"
    /\ clean[r]
    /\ hop[r] = "delete"
    /\ Succeeded(r)
    /\ calls[r] = <<"Delete", "Wait">>
    /\ answers[r] = <<"accepted", "completed">>
    /\ remote[r] = "NotExists"

\* C13: Update is Create without the existence probe: an Update of the Redis
\* association issues no Get before CreateOrUpdate, never returns the
\* already-exists error, and issues exactly one CreateOrUpdate call.
C13_UpdateSkipsProbe ==
  \A r \in insts :
    (kind[r] = "redis" /\ hop[r] = "update") =>
      /\ probe[r] = "none"
      /\ (calls[r] # <<>>) => (calls[r][1] = "CreateOrUpdate")
      /\ hres[r] # "already-exists"
      /\ Cardinality(CallsOf(r, "CreateOrUpdate")) <= 1
      /\ (hpc[r] \in {"wait", "read", "done"}) =>
           Cardinality(CallsOf(r, "CreateOrUpdate")) = 1

\* an Update that ran to its end on an existing object
C13_Witness ==
  \E r \in insts :
    /\ kind[r] = "redis"
    /\ hop[r] = "update"
    /\ ~isNew[r]
    /\ Succeeded(r)
    /\ calls[r] = <<"CreateOrUpdate", "Wait", "Get">>
    /\ remote[r] = "Exists"

\* d.Id() at the start of the invocation on r
IdAtStart(r) == IF hop[r] = "create" THEN EmptyId ELSE IdOf(r)

\* the invocation on r has reached the follow-up Read of CreateUpdate
ReachedFollowUpRead(r) ==
  \/ hpc[r] = "read"
  \/ \E i \in CallsOf(r, "CreateOrUpdate"), j \in CallsOf(r, "Get") : i < j

\* the last call the invocation on r issued ("none": no call yet)
LastCall(r) == IF calls[r] = <<>> THEN "none" ELSE calls[r][Len(calls[r])]

\* C14: Create/Update blocks until the long-running operation completes: the
\* tracked ID is set and the follow-up Read performed only after the wait
\* returned without error; when issuing the call or the wait fails, the
\* handler returns that error, leaves the ID as it was and does not read.
C14_SetIdOnlyAfterWait ==
  \A r \in insts :
    (kind[r] = "redis" /\ hop[r] \in {"create", "update"}) =>
      /\ (tracked[r] # IdAtStart(r) \/ ReachedFollowUpRead(r))
           => AnswerTo(r, "Wait") = "completed"
      /\ (AnswerTo(r, "Wait") # "none") => (AnswerTo(r, "CreateOrUpdate") = "accepted")
      /\ (AnswerTo(r, "CreateOrUpdate") \in {"error", "timeout"}) =>
           /\ hpc[r] = "done" /\ hres[r] = "creating"
           /\ tracked[r] = IdAtStart(r)
           /\ LastCall(r) = "CreateOrUpdate"
      /\ (AnswerTo(r, "Wait") \in {"failed", "timeout"}) =>
           /\ hpc[r] = "done" /\ hres[r] = "waiting"
           /\ tracked[r] = IdAtStart(r)
           /\ LastCall(r) = "Wait"

\* a Create whose long-running operation failed: no ID, no Read
C14_Witness ==
  \E r \in insts :
    /\ kind[r] = "redis"
    /\ hop[r] = "create"
    /\ calls[r] = <<"Get", "CreateOrUpdate", "Wait">>
    /\ answers[r] = <<"notfound", "accepted", "failed">>
    /\ hres[r] = "waiting"
    /\ tracked[r] = EmptyId

\* C15: Delete issues the deletion call and returns success only after the
\* wait for the long-running deletion returned without error; a failure of
\* the call or of the wait is returned as an error.
C15_DeleteWaitsForCompletion ==
  \A r \in insts :
    (kind[r] = "redis" /\ hop[r] = "delete") =>
      /\ Succeeded(r) =>
           /\ calls[r] = <<"Delete", "Wait">>
           /\ AnswerTo(r, "Delete") \in {"accepted", "nocontent"}
           /\ AnswerTo(r, "Wait") = "completed"
      /\ (AnswerTo(r, "Delete") \in {"error", "timeout"}) =>
           /\ hpc[r] = "done" /\ hres[r] = "deleting"
           /\ LastCall(r) = "Delete"
      /\ (AnswerTo(r, "Wait") \in {"failed", "timeout"}) =>
           /\ hpc[r] = "done" /\ hres[r] = "waiting"

\* a Delete whose long-running deletion failed
C15_Witness ==
  \E r \in insts :
    /\ kind[r] = "redis"
    /\ hop[r] = "delete"
    /\ calls[r] = <<"Delete", "Wait">>
    /\ answers[r] = <<"accepted", "failed">>
    /\ hpc[r] = "done"
    /\ hres[r] = "waiting"

\* the deadline of ctx expired during a call of the invocation on r
TimedOut(r) == \E i \in DOMAIN answers[r] : answers[r][i] = "timeout"

\* C16: a timeout surfaces as an error, not a retry: when the deadline
\* expires while Create/Update or Delete is in a call or waits on the
\* long-running operation, the handler returns an error, the timed-out call
\* is its last one, and CreateOrUpdate / Delete is not issued a second time.
C16_TimeoutIsErrorNotRetry ==
  \A r \in insts :
    (kind[r] = "redis") =>
      /\ Cardinality(CallsOf(r, "CreateOrUpdate")) <= 1
      /\ Cardinality(CallsOf(r, "Delete")) <= 1
      /\ TimedOut(r) =>
           /\ hpc[r] = "done"
           /\ hres[r] \in {"creating", "waiting", "deleting"}
           /\ answers[r][Len(answers[r])] = "timeout"

\* an Update whose CreateOrUpdate call ran into the deadline
C16_Witness ==
  \E r \in insts :
    /\ kind[r] = "redis"
    /\ hop[r] = "update"
    /\ calls[r] = <<"CreateOrUpdate">>
    /\ answers[r] = <<"timeout">>
    /\ hres[r] = "creating"

\* everything the model holds about instance r and its remote object
LocalState(r) ==
  <<remote[r], tracked[r], isNew[r], hop[r], hpc[r], probe[r], got[r],
    calls[r], answers[r], clean[r], attrs[r], hres[r]>>

\* C17: handler invocations on different resource IDs share no mutable
\* state: in every interleaving of the steps of invocations on two distinct
\* IDs, each step changes the state of one instance and its remote object
\* only, and an instance only ever tracks its own ID; the steps of the two
\* invocations therefore commute and every interleaving ends as the two
\* invocations run one after the other do.
C17_NoSharedState ==
  /\ [][\E r \in Res : \A q \in Res \ {r} : LocalState(q)' = LocalState(q)]_vars
  /\ [](\A r \in insts : tracked[r] \in {EmptyId, r})

\* two Create invocations in flight at once, then ended differently
C17_Witness ==
  /\ kind["r1"] = "redis" /\ kind["r2"] = "redis"
  /\ hop["r1"] = "create" /\ hop["r2"] = "create"
  /\ hpc["r1"] = "wait" /\ hpc["r2"] = "call"
  /\ remote["r1"] = "Creating" /\ remote["r2"] = "NotExists"

(***************************************************************************)
(* Properties of the requests, responders and stages of the list clients   *)
(* (under SpecList).                                                       *)
(***************************************************************************)
\* the last call to the client sent a request
SentRequest == lastCall.sent = 1

\* C18 as stated: every request sent by List and ListByServer, the initial
\* one and every follow-up built from a nextLink, carries the api-version
\* parameter equal to the client's fixed API version.
C18_EveryRequestHasApiVersion ==
  SentRequest => lastCall.req.apiVersion = defaultApiVersion

\* C18, amended: the request of List and the initial request of ListByServer
\* carry api-version = defaultApiVersion; a follow-up request carries the
\* query of the nextLink and nothing else, hence the api-version parameter
\* exactly as the nextLink holds it, and the fixed version only when the
\* service put it there.
C18_ApiVersionOfRequests ==
  SentRequest =>
    /\ lastCall.op \in {"List", "ListByServer"} => lastCall.req.apiVersion = defaultApiVersion
    /\ lastCall.op = "LoadMore" => lastCall.req.apiVersion = linkQuery

\* a follow-up request for a nextLink that carries no api-version parameter
C18_Witness ==
  /\ lastCall.op = "LoadMore"
  /\ SentRequest
  /\ lastCall.err = NoErr
  /\ linkQuery = Nil
  /\ lastCall.req.apiVersion = Nil

\* the last call to the client ran its responder
Responded == lastCall.stages = <<"prepare", "send", "respond">>

\* C19: the list responders always close the response body: after
\* responderForList or responderForListByServer returned, the body is closed,
\* whether the status was 200, the status was unexpected or unmarshalling the
\* JSON failed.
C19_RespondersCloseBody ==
  Responded =>
    /\ lastCall.http.status \in {200, 500}
    /\ lastCall.http.closed

\* responderForListByServer returned with an unmarshalling error
C19_Witness ==
  /\ lastCall.op = "ListByServer"
  /\ Responded
  /\ lastCall.http.status = 200
  /\ lastCall.http.malformed
  /\ lastCall.err.message = "Failure responding to request"
  /\ lastCall.http.closed

\* the operation name an error of the last call is wrapped with
OperationOf(op) ==
  IF op = "List" THEN "objectreplicationpolicies.ObjectReplicationPoliciesClient#List"
  ELSE "configurations.ConfigurationsClient#ListByServer"

\* the message an error of the stage is wrapped with
FailureAt(stage) ==
  CASE stage = "prepare" -> "Failure preparing request"
    [] stage = "send" -> "Failure sending request"
    [] stage = "respond" -> "Failure responding to request"

\* C20: List and ListByServer (the nextPageFunc closure included) run prepare,
\* send, respond in this order; a failure at a stage returns an error wrapped
\* with the operation name and that stage and no later stage runs (a
\* preparation failure sends nothing); a response whose status is not 200 is
\* reported as an error; one call issues at most one Send.
C20_PrepareSendRespond ==
  (lastCall.op # "none") =>
    LET n == Len(lastCall.stages)
    IN /\ n \in 1..3
       /\ lastCall.stages = SubSeq(<<"prepare", "send", "respond">>, 1, n)
       /\ lastCall.sent = IF n >= 2 THEN 1 ELSE 0
       /\ (lastCall.err = NoErr) =>
            /\ Responded
            /\ lastCall.http.status = 200
       /\ (lastCall.err # NoErr) =>
            /\ lastCall.err.op = OperationOf(lastCall.op)
            /\ lastCall.err.message = FailureAt(lastCall.stages[n])
       /\ (Responded /\ lastCall.http.status # 200) =>
            lastCall.err.message = "Failure responding to request"
       /\ (n = 1) => (lastCall.err # NoErr /\ lastCall.req = NoRequest)
       /\ (n = 2) => lastCall.err # NoErr

\* a call of the nextPageFunc closure whose Send failed: no responder ran
C20_Witness ==
  /\ lastCall.op = "LoadMore"
  /\ lastCall.stages = <<"prepare", "send">>
  /\ lastCall.sent = 1
  /\ lastCall.err.message = "Failure sending request"
  /\ lastCall.http = NoHttpResponse

(***************************************************************************)
(* Termination of the drain (under SpecListLive and SpecList).             *)
(***************************************************************************)
\* the pages met by following the nextLinks from page i, at most k of them
RECURSIVE Walk(_, _)
Walk(i, k) ==
  IF k = 0 THEN <<>>
  ELSE IF server[i].nextLink.json = "string"
       THEN <<i>> \o Walk(server[i].nextLink.to, k - 1)
       ELSE <<i>>

\* the chain of continuation tokens that starts at the first page
Chain == Walk(1, Len(server))

\* the chain is finite: it ends at a page without a token
FiniteChain == server[Chain[Len(Chain)]].nextLink.json # "string"

\* the drain has returned
Returned == lpc \in {"done", "failed"}

\* C21: ListByServerComplete terminates whenever the chain of continuation
\* tokens is finite: for a chain of N pages it issues exactly N requests, one
\* at a time, each follow-up request for the nextLink of the page before it,
\* and it stops at the first response without a token.
C21_DrainTerminates ==
  /\ [](FiniteChain /\ lpc \in {"paging", "done"} =>
          /\ Len(trail) <= Len(Chain)
          /\ trail = SubSeq(Chain, 1, Len(trail))
          /\ sends = Len(trail))
  /\ [](FiniteChain /\ lpc = "done" =>
          /\ trail = Chain
          /\ sends = Len(Chain)
          /\ ~HasMore(page))
  /\ [][FiniteChain /\ lpc = "paging" /\ lpc' = "done" => trail = Chain]_vars
  /\ ((FiniteChain /\ lpc \in {"start", "paging"}) ~> (Returned \/ lpc = "listed"))

\* a drain of a two-page chain that returned after two requests
C21_Witness ==
  /\ FiniteChain
  /\ Len(Chain) = 2
  /\ lpc = "done"
  /\ sends = 2
  /\ trail = <<1, 2>>
  /\ out.err = NoErr

(***************************************************************************)
(* Further properties of the CRUD handlers (under SpecCrud).               *)
(***************************************************************************)
\* C22: for OutputTableResource, after a successful Create followed by a
\* successful Delete (no other actor involved) the remote output is absent,
\* so that a later Create of the same ID passes the existence probe.
C22_TableDeleteRemoves ==
  \A r \in insts :
    (kind[r] = "table" /\ clean[r] /\ hop[r] = "delete" /\ Succeeded(r))
      => remote[r] = "NotExists"

\* C23: when the Get in Read of the Redis association fails with anything
\* other than not-found, Read returns the "reading <id>" error and leaves the
\* tracked ID and the tracked attributes as they were.
C23_ReadErrorLeavesState ==
  /\ [][\A r \in insts :
          (kind[r] = "redis" /\ hpc[r] = "read" /\ hpc'[r] = "done" /\ got'[r] = "error")
            => /\ hres'[r] = "reading"
               /\ tracked'[r] = tracked[r]
               /\ attrs'[r] = attrs[r]]_vars
  /\ [](\A r \in insts :
          (kind[r] = "redis" /\ hpc[r] = "done" /\ got[r] = "error")
            => (hres[r] = "reading" /\ tracked[r] = IdOf(r)))

\* a Read of a tracked association whose Get failed, after an earlier Read
\* had set the attributes
C23_Witness ==
  \E r \in insts :
    /\ kind[r] = "redis"
    /\ hop[r] = "read"
    /\ hpc[r] = "done"
    /\ got[r] = "error"
    /\ hres[r] = "reading"
    /\ tracked[r] = IdOf(r)
    /\ attrs[r] = "remote"

\* C24: the check-then-create of Create is not atomic: when another actor
\* creates the remote object after the probe answered not-found and before
\* the creation call, the handler still issues the creation call and never
\* returns the already-exists error, and it can go on to report success; only
\* without another actor does the creation call of a Create always meet an
\* absent object.
C24_CheckThenCreateNotAtomic ==
  /\ [](\A r \in insts :
          (hop[r] = "create" /\ probe[r] = "notfound") => hres[r] # "already-exists")
  /\ [][\A r \in insts :
          (hop[r] = "create" /\ hpc[r] = "call" /\ hpc'[r] # "call")
            => (IssuedCreation(r)' /\ hres'[r] # "already-exists")]_vars
  /\ [](\A r \in insts :
          (kind[r] = "redis" /\ hop[r] = "create" /\ hpc[r] = "call" /\ remote[r] = "Exists")
            => ENABLED RedisCreateOrUpdate(r))
  /\ [](\A r \in insts :
          (kind[r] = "redis" /\ hop[r] = "create" /\ hpc[r] = "wait" /\ remote[r] = "Updating")
            => ENABLED (RedisWait(r) /\ hpc'[r] = "read" /\ tracked'[r] = IdOf(r)))
  /\ [](\A r \in insts :
          (kind[r] = "redis" /\ hop[r] = "create" /\ hpc[r] = "wait" /\ clean[r])
            => remote[r] = "Creating")

\* a Create whose probe answered not-found and whose CreateOrUpdate met an
\* object that another actor had created in between
C24_Witness ==
  \E r \in insts :
    /\ kind[r] = "redis"
    /\ hop[r] = "create"
    /\ probe[r] = "notfound"
    /\ calls[r] = <<"Get", "CreateOrUpdate">>
    /\ answers[r] = <<"notfound", "accepted">>
    /\ remote[r] = "Updating"

\* the invocation on r is a CreateUpdate of the Redis association that returned nil
CreateUpdateSucceeded(r) ==
  kind[r] = "redis" /\ hop[r] \in {"create", "update"} /\ Succeeded(r)

\* C25 as stated: whenever CreateUpdate of the Redis association returns
\* success, the tracked ID equals the formatted ID of the association (the
\* Read after SetId never leaves a successful create with an empty ID).
C25_SuccessMeansIdSet ==
  \A r \in insts : CreateUpdateSucceeded(r) => tracked[r] = IdOf(r)

\* C25, amended: when CreateUpdate returns success, the follow-up Read got an
\* answer that is found or not-found; the tracked ID equals the formatted ID
\* exactly when the Get found the object, and it is empty when the Get
\* answered not-found (the object having vanished after the wait); without
\* another actor a successful CreateUpdate always leaves the formatted ID.
C25_SuccessIdFollowsRead ==
  \A r \in insts :
    CreateUpdateSucceeded(r) =>
      /\ got[r] \in {"found", "notfound"}
      /\ (got[r] = "found") => (tracked[r] = IdOf(r))
      /\ (got[r] = "notfound") => (tracked[r] = EmptyId)
      /\ clean[r] => (tracked[r] = IdOf(r))

\* a Create that returned success with an empty ID: its object was deleted
\* by another actor between the wait and the Read
C25_Witness ==
  \E r \in insts :
    /\ CreateUpdateSucceeded(r)
    /\ hop[r] = "create"
    /\ calls[r] = <<"Get", "CreateOrUpdate", "Wait", "Get">>
    /\ answers[r] = <<"notfound", "accepted", "completed", "notfound">>
    /\ tracked[r] = EmptyId
    /\ remote[r] = "NotExists"

\* the invocation on r is a CreateUpdate of the Redis association that returned an error
CreateUpdateFailed(r) ==
  kind[r] = "redis" /\ hop[r] \in {"create", "update"} /\ hpc[r] = "done" /\ hres[r] # "ok"

\* C26 as stated: whenever CreateUpdate of the Redis association returns an
\* error, the tracked ID is the same as before the call (a failed create
\* never leaves a newly set ID in state).
C26_FailureLeavesId ==
  \A r \in insts : CreateUpdateFailed(r) => tracked[r] = IdAtStart(r)

\* C26, amended: an error of CreateUpdate raised by the existence probe, by
\* CreateOrUpdate or by the wait leaves the tracked ID as before the call; an
\* error raised by the follow-up Read (its Get failed other than not-found)
\* is returned after SetId, with the formatted ID in state, which for a
\* Create is a newly set ID.
C26_FailureIdByStage ==
  \A r \in insts :
    CreateUpdateFailed(r) =>
      /\ hres[r] \in {"checking", "already-exists", "creating", "waiting", "reading"}
      /\ (hres[r] # "reading") => (tracked[r] = IdAtStart(r))
      /\ (hres[r] = "reading") =>
           /\ tracked[r] = IdOf(r)
           /\ AnswerTo(r, "Wait") = "completed"
           /\ got[r] = "error"

\* a Create that failed in its follow-up Read and left its new ID in state
C26_Witness ==
  \E r \in insts :
    /\ CreateUpdateFailed(r)
    /\ hop[r] = "create"
    /\ calls[r] = <<"Get", "CreateOrUpdate", "Wait", "Get">>
    /\ answers[r] = <<"notfound", "accepted", "completed", "error">>
    /\ hres[r] = "reading"
    /\ tracked[r] = IdOf(r)

(***************************************************************************)
(* The drain on a chain that does not end, and LoadMore (under SpecList).  *)
(***************************************************************************)
\* the items of the pages loaded so far, page after page
RECURSIVE ItemsAlong(_)
ItemsAlong(t) == IF t = <<>> THEN <<>> ELSE server[Head(t)].value \o ItemsAlong(Tail(t))

\* C27: ListByServerComplete has no bound on the number of pages and no
\* cycle detection: on a chain of nextLinks that never ends (one that comes
\* back to an earlier page) the drain never returns successfully; as long as
\* no request fails it goes on to request the page its last nextLink names,
\* loaded before or not, and keeps appending the items of every page it loads;
\* it ends only with the failure of a request.
C27_NoCycleDetection ==
  /\ [](~FiniteChain => lpc # "done")
  /\ [](lpc = "paging" /\ HasMore(page) /\ sends < MaxRequests => ENABLED ListNextPage)
  /\ [](lpc = "paging" => completeItems = ItemsAlong(trail))
  /\ [][(lpc = "paging" /\ lpc' = "paging" /\ trail' # trail)
          => trail' = Append(trail, LastLoaded.nextLink.to)]_vars
  /\ [](~FiniteChain /\ lpc = "failed" =>
          /\ lastCall.stages # <<>>
          /\ lastCall.err.message \in {"Failure preparing request", "Failure sending request",
                                       "Failure responding to request"})

\* a drain that came back to its first page and loaded it a second time
C27_Witness ==
  /\ ~FiniteChain
  /\ lpc = "paging"
  /\ trail = <<1, 2, 1>>
  /\ server[1].value # <<>>
  /\ completeItems = server[1].value \o server[2].value \o server[1].value
  /\ HasMore(page)

\* C28: LoadMore on a terminal page (HasMore() false) returns the error
\* "no more pages returned" with an empty response and sends no request; a
\* page produced by the responder that has more has its next-page function set.
C28_LoadMoreAtEnd ==
  /\ more.called =>
       /\ ~HasMore(page)
       /\ more.err = [NoErr EXCEPT !.message = "no more pages returned"]
       /\ more.resp = ZeroResponse
       /\ more.sent = 0
       /\ sends = Len(trail)
  /\ (lpc \in {"paging", "done", "ended"}) => (HasMore(page) <=> page.nextPageFunc)
  /\ (lastCall.err = NoErr /\ lastCall.op \in {"ListByServer", "LoadMore"}) =>
       (HasMore(page) => page.nextPageFunc)

\* LoadMore was called on the last page of a drain of two pages
C28_Witness ==
  /\ lpc = "ended"
  /\ more.called
  /\ trail = <<1, 2>>
  /\ ~HasMore(page)
  /\ more.err.message = "no more pages returned"
  /\ sends = 2

\* the value under the key is a string equal to "true" ignoring case
IsTrueString(w) == w.kind = "string" /\ EqualFold(w.val, FormatBool(TRUE))

\* C29 as stated: after a Read, ssl_enabled is true exactly when the
\* binding parameters hold a string equal to "true" ignoring case under
\* useSsl (false when the key is absent or holds another string), and
\* a Create with ssl_enabled = b followed by Read yields b only if the
\* service returned the string form of b
C29_SslRoundTripOnlyByStringForm ==
  /\ (sslPc \in {"read", "refreshed"}) => (sslEnabled <=> IsTrueString(sslParam))
  /\ (sslPc = "read" /\ sslEnabled = sslConfig) =>
       (sslParam.kind = "string" /\ EqualFold(sslParam.val, FormatBool(sslConfig)))

\* C29, amended: a Read whose Get returns Properties with a string or no
\* value under useSsl sets ssl_enabled to true exactly when the value is a
\* string equal to "true" ignoring case; without Properties it leaves
\* ssl_enabled as it was; on a value that is not a string it panics and sets
\* nothing. So Create with ssl_enabled = b followed by Read yields b, for
\* b = true, only if the service returned such a string or no Properties,
\* and for b = false, whenever the service returned anything but such a
\* string (the key absent and any other string included)
C29_SslEnabledOnRead ==
  [][ (sslPc \in {"created", "stale"} /\ sslPc' # sslPc) =>
        /\ (sslPc' = "panicked") <=> (sslParam.kind = "bool")
        /\ (sslParam.kind \in {"string", "absent"}) => (sslEnabled' <=> IsTrueString(sslParam))
        /\ (sslParam.kind \in {"noprops", "bool"}) => (sslEnabled' = sslEnabled)
        /\ (sslPc' = "read") =>
             ((sslEnabled' = sslConfig) <=>
                IF sslConfig THEN IsTrueString(sslParam) \/ sslParam.kind = "noprops"
                ELSE ~IsTrueString(sslParam)) ]_vars

C29_Witness ==
  /\ sslPc = "read"
  /\ sslConfig = TRUE
  /\ sslParam = [kind |-> "string", val |-> <<"T","r","u","e">>]
  /\ sslEnabled = TRUE

====
